---------------------------- MODULE Spec2Model ----------------------------
(***************************************************************************)
(* A model of src/monitor.js, the XDGM datagram monitor.                   *)
(*                                                                         *)
(* The monitor is single threaded: every 'message' event of the UDP        *)
(* socket and every firing of the one-second interval timer runs to        *)
(* completion before the next one starts, so each handler is one action.   *)
(* Date.now() is read several times inside one handler; the model gives    *)
(* all reads of one handler the same value, the variable now.              *)
(*                                                                         *)
(* A datagram is a record: its length in bytes, the values held at the     *)
(* fixed offsets the header parser reads and that the monitor's logic      *)
(* uses, and the bytes from offset HEADER_SIZE on (tail).  The rendering   *)
(* (blessed boxes, screen.render, the details pop-up) is not modelled; of  *)
(* the card's display only the status line is kept (syncStatus).           *)
(***************************************************************************)
EXTENDS Integers, Sequences, FiniteSets, TLC

VARIABLES
    now,        \* Date.now() as read by the handler that ran last
    servers,    \* the Map servers, as its entries in insertion order
    nextSlot,   \* let nextSlot
    alerts,     \* const alerts, newest first
    console,    \* what the last handler wrote to the console
    running,    \* the process is alive: no exception left a handler
    listening,  \* the UDP socket is open: server.close() was not called
    event,      \* the event handled last, with what the handler found
    reported,   \* history: <<key, warnings, recognized>> of every update()
    handled     \* history: how many events were handled

vars == <<now, servers, nextSlot, alerts, console, running, listening, event, reported,
          handled>>

-----------------------------------------------------------------------------
(* Program constants *)

SERVER_INFO_MAGIC == 1296516184     \* 0x4D474458
SERVER_INFO_VERSION == 1
SERVER_TIMEOUT == 2000
HEADER_SIZE == 708
HEADER_READ_END == 544      \* the last header read is readDoubleLE(buffer, 536)
DEBUG_READ_END == 708       \* the last debug counter is read at 700, 8 bytes
ALERT_WINDOW == 300000      \* the throttle of both alert paths of updateDisplay
MAX_SLOTS == 20
TICK_INTERVAL == 1000       \* the period of the setInterval timer
MAX_ALERTS == 100
RANGE_SIZE == 8
RECORD_SIZE == 64
NAME_SIZE == 56

WARNING_FLAGS ==
    [AMENDMENT_BLOCKED |-> 1, UNL_BLOCKED |-> 2, AMENDMENT_WARNED |-> 4, NOT_SYNCED |-> 8]

\* flags & mask, for a mask of one bit
BitAnd(flags, mask) == IF (flags \div mask) % 2 = 1 THEN mask ELSE 0

-----------------------------------------------------------------------------
(* Buffers.  Node's Buffer reads throw a RangeError when they reach past    *)
(* the end of the buffer; Buffer.slice clamps instead.  A result that may   *)
(* be an exception is a record [threw, value].                              *)

Returned(v) == [threw |-> FALSE, value |-> v]
Thrown == [threw |-> TRUE, value |-> <<>>]

InBounds(buffer, offset, size) == offset + size <= buffer.len

\* buffer.readUInt32LE(offset), for an offset in the variable part
readUInt32LE(buffer, offset) ==
    IF ~InBounds(buffer, offset, 4) THEN Thrown
    ELSE LET p == offset - HEADER_SIZE
             b == buffer.tail
         IN Returned(b[p + 1] + 256 * b[p + 2] + 65536 * b[p + 3] + 16777216 * b[p + 4])

\* readUInt64LE: the number high * 2^32 + low, which is past the integers of the
\* model checker and is kept as its two halves
readUInt64LE(buffer, offset) ==
    LET low == readUInt32LE(buffer, offset)
        high == readUInt32LE(buffer, offset + 4)
    IN IF low.threw \/ high.threw THEN Thrown
       ELSE Returned([high |-> high.value, low |-> low.value])

\* buffer.slice(from, to), for a range in the variable part: clamped, never throws
Slice(buffer, from, to) ==
    LET last == IF to < buffer.len THEN to ELSE buffer.len
    IN IF from >= last THEN <<>>
       ELSE SubSeq(buffer.tail, from - HEADER_SIZE + 1, last - HEADER_SIZE)

\* .replace(/\0+$/, ''): drop the trailing NUL bytes
RECURSIVE StripNuls(_)
StripNuls(s) ==
    IF s = <<>> THEN s
    ELSE IF s[Len(s)] = 0 THEN StripNuls(SubSeq(s, 1, Len(s) - 1)) ELSE s

\* a header parser whose reads past the end of the buffer do not throw
MutHeaderNeverThrows(buffer) ==
    Returned([magic |-> buffer.magic,
              version |-> buffer.version,
              ledger_range_count |-> buffer.ledger_range_count,
              warning_flags |-> buffer.warning_flags,
              node_public_key |-> buffer.node_public_key])

\* parseServerInfoHeader: every read lies below HEADER_READ_END, the reads go up
\* in offset, and the first one past the end throws out of the function.  Of the
\* fields only those the monitor's logic uses are kept.
parseServerInfoHeader(buffer) ==
    IF ~InBounds(buffer, HEADER_READ_END - 8, 8) THEN Thrown
    ELSE Returned([magic |-> buffer.magic,
                   version |-> buffer.version,
                   ledger_range_count |-> buffer.ledger_range_count,
                   warning_flags |-> buffer.warning_flags,
                   node_public_key |-> buffer.node_public_key])

\* the loop of parseLedgerRanges from index i on, ranges being what was pushed
RECURSIVE ReadRanges(_, _, _, _)
ReadRanges(buffer, count, i, ranges) ==
    IF i >= count THEN Returned(ranges)
    ELSE LET offset == HEADER_SIZE + i * RANGE_SIZE
             start == readUInt32LE(buffer, offset)
             end == readUInt32LE(buffer, offset + 4)
         IN IF start.threw \/ end.threw THEN Thrown
            ELSE ReadRanges(buffer, count, i + 1,
                            Append(ranges, [start |-> start.value, end |-> end.value]))

\* a range parser that keeps the ranges read before the failing read
RECURSIVE ReadRangesPartial(_, _, _, _)
ReadRangesPartial(buffer, count, i, ranges) ==
    IF i >= count THEN Returned(ranges)
    ELSE LET offset == HEADER_SIZE + i * RANGE_SIZE
             start == readUInt32LE(buffer, offset)
             end == readUInt32LE(buffer, offset + 4)
         IN IF start.threw \/ end.threw THEN Returned(ranges)
            ELSE ReadRangesPartial(buffer, count, i + 1,
                            Append(ranges, [start |-> start.value, end |-> end.value]))

MutLedgerRangesPartial(buffer, header) ==
    ReadRangesPartial(buffer, header.ledger_range_count, 0, <<>>).value

parseLedgerRanges(buffer, header) ==
    LET r == ReadRanges(buffer, header.ledger_range_count, 0, <<>>)
    IN IF r.threw THEN <<>> ELSE r.value

\* nameBuffer.toString('utf8'), for the bytes the datagrams of the model hold:
\* a byte below 128 is the character of that code, and 0xFF, which no UTF-8
\* sequence contains, becomes U+FFFD
REPLACEMENT_CHARACTER == 65533

toStringUtf8(bytes) ==
    [k \in 1..Len(bytes) |-> IF bytes[k] < 128 THEN bytes[k] ELSE REPLACEMENT_CHARACTER]

\* an object-count parser that keeps the records whose name is empty
RECURSIVE MutReadObjectsKeepEmpty(_, _, _, _, _)
MutReadObjectsKeepEmpty(buffer, objectCountOffset, numObjects, i, counts) ==
    IF i >= numObjects THEN Returned(counts)
    ELSE LET offset == objectCountOffset + i * RECORD_SIZE
             name == StripNuls(toStringUtf8(Slice(buffer, offset, offset + NAME_SIZE)))
             count == readUInt64LE(buffer, offset + NAME_SIZE)
         IN IF count.threw THEN Thrown
            ELSE MutReadObjectsKeepEmpty(buffer, objectCountOffset, numObjects, i + 1,
                             Append(counts, [name |-> name, count |-> count.value]))

\* the loop of parseObjectCounts from record i on
RECURSIVE ReadObjects(_, _, _, _, _)
ReadObjects(buffer, objectCountOffset, numObjects, i, counts) ==
    IF i >= numObjects THEN Returned(counts)
    ELSE LET offset == objectCountOffset + i * RECORD_SIZE
             name == StripNuls(toStringUtf8(Slice(buffer, offset, offset + NAME_SIZE)))
             count == readUInt64LE(buffer, offset + NAME_SIZE)
         IN IF count.threw THEN Thrown
            ELSE ReadObjects(buffer, objectCountOffset, numObjects, i + 1,
                             IF Len(name) > 0
                             THEN Append(counts, [name |-> name, count |-> count.value])
                             ELSE counts)

parseObjectCounts(buffer, header) ==
    LET objectCountOffset == HEADER_SIZE + header.ledger_range_count * RANGE_SIZE
        remainingBytes == buffer.len - objectCountOffset
        numObjects == IF remainingBytes < RECORD_SIZE THEN 0
                      ELSE remainingBytes \div RECORD_SIZE
        r == ReadObjects(buffer, objectCountOffset, numObjects, 0, <<>>)
    IN IF r.threw THEN <<>> ELSE r.value

\* parseDebugCounters: the counters lie between 544 and 708; their values are
\* only rendered, so the result is null or the token "counters"
parseDebugCounters(buffer) ==
    IF ~InBounds(buffer, DEBUG_READ_END - 8, 8) THEN "null" ELSE "counters"

-----------------------------------------------------------------------------
(* formatDuration.  A number of microseconds is past the integers of the     *)
(* model checker from 2^31 on, so it is kept as whole seconds and the         *)
(* microseconds left (below MICROS_PER_SECOND); the divisors of the units     *)
(* from the second up are whole seconds.  The unit of microseconds is         *)
(* written "us" here.                                                         *)

MICROS_PER_SECOND == 1000000

units ==
    <<[seconds |-> 31536000, micros |-> 0, unit |-> "year"],
      [seconds |-> 2592000, micros |-> 0, unit |-> "month"],
      [seconds |-> 86400, micros |-> 0, unit |-> "day"],
      [seconds |-> 3600, micros |-> 0, unit |-> "hour"],
      [seconds |-> 60, micros |-> 0, unit |-> "minute"],
      [seconds |-> 1, micros |-> 0, unit |-> "second"],
      [seconds |-> 0, micros |-> 1000, unit |-> "ms"],
      [seconds |-> 0, micros |-> 1, unit |-> "us"]>>

\* microseconds >= divisor
AtLeast(microseconds, divisor) ==
    \/ microseconds.seconds > divisor.seconds
    \/ microseconds.seconds = divisor.seconds /\ microseconds.micros >= divisor.micros

\* microseconds / divisor in tenths, rounded to the nearest as toFixed(1)
\* rounds, for microseconds >= divisor
Tenths(microseconds, divisor) ==
    IF divisor.seconds > 0
    THEN LET tenthSeconds == 10 * microseconds.seconds
                                + (10 * microseconds.micros) \div MICROS_PER_SECOND
             left == (10 * microseconds.micros) % MICROS_PER_SECOND
             whole == tenthSeconds \div divisor.seconds
             rest == tenthSeconds % divisor.seconds
             up == 2 * rest + (2 * left) \div MICROS_PER_SECOND >= divisor.seconds
         IN whole + (IF up THEN 1 ELSE 0)
    ELSE (20 * microseconds.micros + divisor.micros) \div (2 * divisor.micros)

\* (x).toFixed(1), from the tenths of x: the digits, a point, one digit
toFixed1(tenths) == ToString(tenths \div 10) \o "." \o ToString(tenths % 10)

\* the loop of formatDuration from unit i on; undefined when no unit fits
RECURSIVE FormatFrom(_, _)
FormatFrom(microseconds, i) ==
    IF i > Len(units) THEN "undefined"
    ELSE IF AtLeast(microseconds, units[i])
         THEN LET value == toFixed1(Tenths(microseconds, units[i]))
              IN value \o " " \o units[i].unit \o (IF value # "1" THEN "s" ELSE "")
         ELSE FormatFrom(microseconds, i + 1)

formatDuration(microseconds) ==
    IF microseconds.seconds = 0 /\ microseconds.micros = 0 THEN "0 us"
    ELSE FormatFrom(microseconds, 1)

-----------------------------------------------------------------------------
(* The alert log *)

\* encodeNodePublic of ripple-address-codec: an injective encoding of a 33 byte
\* key.  It throws only for a key that is not 33 bytes long, and a header that
\* was parsed at all holds all 33 bytes (168..200), so the hex fallback of
\* getNodeId is never taken.
encodeNodePublic(key) == "n" \o ToString(key)

\* an addAlert that never discards
MutAddAlertNoPop(log, message, serverId, t) ==
    <<[at |-> t, id |-> serverId, msg |-> message]>> \o log

\* addAlert.  An entry is "[HH:mm:ss] id: message"; the model keeps the three
\* parts apart and keeps the time of the append in full (at).
addAlert(log, message, serverId, t) ==
    LET unshifted == <<[at |-> t, id |-> serverId, msg |-> message]>> \o log
    IN IF Len(unshifted) > MAX_ALERTS
       THEN SubSeq(unshifted, 1, Len(unshifted) - 1)
       ELSE unshifted

\* warnings.forEach(warning => addAlert(warning, nodeId))
RECURSIVE AddAlerts(_, _, _, _)
AddAlerts(log, warnings, serverId, t) ==
    IF warnings = <<>> THEN log
    ELSE AddAlerts(addAlert(log, Head(warnings), serverId, t), Tail(warnings), serverId, t)

-----------------------------------------------------------------------------
(* class ServerCard.  header is <<>> (undefined) or <<h>>; lastAwolAlert and  *)
(* lastWarningTime are 0 while undefined: both are falsy to the ! that tests  *)
(* them, and Date.now() is never 0.                                           *)

NewServerCard(index) ==
    [index |-> index,
     header |-> <<>>,
     ranges |-> <<>>,
     objectCounts |-> <<>>,
     debugCounters |-> "undefined",
     lastUpdate |-> 0,
     isAwol |-> FALSE,
     lastAwolAlert |-> 0,
     lastWarningTime |-> 0,
     syncStatus |-> "none"]

getNodeId(card) ==
    IF card.header = <<>> THEN "Unknown"
    ELSE encodeNodePublic(card.header[1].node_public_key)

\* a getWarnings that tests the flags from the highest bit down
MutWarningsReversed(header) ==
    (IF BitAnd(header.warning_flags, WARNING_FLAGS.NOT_SYNCED) # 0
        THEN <<"NOT SYNCED">> ELSE <<>>)
    \o (IF BitAnd(header.warning_flags, WARNING_FLAGS.AMENDMENT_WARNED) # 0
        THEN <<"Amendment Warned">> ELSE <<>>)
    \o (IF BitAnd(header.warning_flags, WARNING_FLAGS.UNL_BLOCKED) # 0
        THEN <<"UNL Blocked">> ELSE <<>>)
    \o (IF BitAnd(header.warning_flags, WARNING_FLAGS.AMENDMENT_BLOCKED) # 0
        THEN <<"Amendment Blocked">> ELSE <<>>)

\* getWarnings(header), for a header that is not undefined
getWarnings(header) ==
    (IF BitAnd(header.warning_flags, WARNING_FLAGS.AMENDMENT_BLOCKED) # 0
        THEN <<"Amendment Blocked">> ELSE <<>>)
    \o (IF BitAnd(header.warning_flags, WARNING_FLAGS.UNL_BLOCKED) # 0
        THEN <<"UNL Blocked">> ELSE <<>>)
    \o (IF BitAnd(header.warning_flags, WARNING_FLAGS.AMENDMENT_WARNED) # 0
        THEN <<"Amendment Warned">> ELSE <<>>)
    \o (IF BitAnd(header.warning_flags, WARNING_FLAGS.NOT_SYNCED) # 0
        THEN <<"NOT SYNCED">> ELSE <<>>)

\* AWOL already at the timeout
MutAwolAtTimeout(card, t) == (t - card.lastUpdate) >= SERVER_TIMEOUT

\* this.isAwol = (Date.now() - this.lastUpdate) > SERVER_TIMEOUT
IsAwolAt(card, t) == (t - card.lastUpdate) > SERVER_TIMEOUT

\* a throttle that lets an alert through when the window has just elapsed
MutThrottleAtWindow(last, t) == last = 0 \/ t - last >= ALERT_WINDOW

\* !this.lastAwolAlert || Date.now() - this.lastAwolAlert > 300000, and the
\* same test of lastWarningTime
ThrottlePassed(last, t) == last = 0 \/ t - last > ALERT_WINDOW

\* an updateDisplay that announces the warnings of an AWOL node as well
MutUpdateDisplayWarnsAwol(card, log, t) ==
    IF card.header = <<>> THEN [card |-> card, log |-> log]
    ELSE
      LET warnings == getWarnings(card.header[1])
          nodeId == getNodeId(card)
          isAwol == IsAwolAt(card, t)
          syncStatus == IF isAwol THEN "AWOL"
                        ELSE IF BitAnd(card.header[1].warning_flags, WARNING_FLAGS.NOT_SYNCED) # 0
                             THEN "NOT SYNCED"
                             ELSE "SYNCED"
          shown == [card EXCEPT !.isAwol = isAwol, !.syncStatus = syncStatus]
          awol == IF isAwol /\ ThrottlePassed(card.lastAwolAlert, t)
                  THEN [card |-> [shown EXCEPT !.lastAwolAlert = t],
                        log |-> addAlert(log, "Server is AWOL", nodeId, t)]
                  ELSE [card |-> shown, log |-> log]
      IN IF Len(warnings) > 0 /\ ThrottlePassed(card.lastWarningTime, t)
         THEN [card |-> [awol.card EXCEPT !.lastWarningTime = t],
               log |-> AddAlerts(awol.log, warnings, nodeId, t)]
         ELSE awol

\* updateDisplay(), run at time t with the alert log as it stands: the card and
\* the log it leaves
updateDisplay(card, log, t) ==
    IF card.header = <<>> THEN [card |-> card, log |-> log]
    ELSE
      LET header == card.header[1]
          warnings == getWarnings(header)
          nodeId == getNodeId(card)
          isAwol == IsAwolAt(card, t)
          syncStatus == IF isAwol THEN "AWOL"
                        ELSE IF BitAnd(header.warning_flags, WARNING_FLAGS.NOT_SYNCED) # 0
                             THEN "NOT SYNCED"
                             ELSE "SYNCED"
          shown == [card EXCEPT !.isAwol = isAwol, !.syncStatus = syncStatus]
      IN IF isAwol
         THEN IF ThrottlePassed(card.lastAwolAlert, t)
              THEN [card |-> [shown EXCEPT !.lastAwolAlert = t],
                    log |-> addAlert(log, "Server is AWOL", nodeId, t)]
              ELSE [card |-> shown, log |-> log]
         ELSE IF Len(warnings) > 0
              THEN IF ThrottlePassed(card.lastWarningTime, t)
                   THEN [card |-> [shown EXCEPT !.lastWarningTime = t],
                         log |-> AddAlerts(log, warnings, nodeId, t)]
                   ELSE [card |-> shown, log |-> log]
              ELSE [card |-> shown, log |-> log]

\* currentWarnings.length > hadWarnings compares a number with a boolean, which
\* JavaScript converts to 0 or 1
ToNumber(b) == IF b THEN 1 ELSE 0

\* the warnings update() announces before it calls updateDisplay()
Announced(card, header) ==
    LET isFirstUpdate == card.header = <<>>
        hadWarnings == IF card.header # <<>>
                       THEN Len(getWarnings(card.header[1])) > 0
                       ELSE FALSE
        currentWarnings == getWarnings(header)
    IN IF ~isFirstUpdate /\ Len(currentWarnings) > ToNumber(hadWarnings)
       THEN currentWarnings
       ELSE <<>>

\* an update() that does not reset lastUpdate
MutUpdateKeepsLastUpdate(card, header, ranges, objectCounts, debugCounters, log, t) ==
    LET stored == [card EXCEPT !.header = <<header>>,
                               !.ranges = ranges,
                               !.objectCounts = objectCounts,
                               !.debugCounters = debugCounters]
    IN updateDisplay(stored, AddAlerts(log, Announced(card, header), getNodeId(stored), t), t)

\* update(header, rinfo, ranges, objectCounts, debugCounters) at time t.  rinfo
\* is only rendered and is left out.
update(card, header, ranges, objectCounts, debugCounters, log, t) ==
    LET stored == [card EXCEPT !.lastUpdate = t,
                               !.header = <<header>>,
                               !.ranges = ranges,
                               !.objectCounts = objectCounts,
                               !.debugCounters = debugCounters]
    IN updateDisplay(stored, AddAlerts(log, Announced(card, header), getNodeId(stored), t), t)

-----------------------------------------------------------------------------
(* Server management and the two handlers of the dashboard *)

\* a slot counter that hands out one slot too many
MutNextSlotOffByOne(n) ==
    IF n > MAX_SLOTS THEN [isNull |-> TRUE, slot |-> 0, nextSlot |-> n]
    ELSE [isNull |-> FALSE, slot |-> n, nextSlot |-> n + 1]

\* getNextSlot(): null once MAX_SLOTS slots were handed out
getNextSlot(n) ==
    IF n >= MAX_SLOTS THEN [isNull |-> TRUE, slot |-> 0, nextSlot |-> n]
    ELSE [isNull |-> FALSE, slot |-> n, nextSlot |-> n + 1]

\* servers.has(key), and the place of key's entry (0 when it has none)
Has(entries, key) == \E i \in 1..Len(entries) : entries[i].key = key

IndexOf(entries, key) ==
    IF Has(entries, key)
    THEN CHOOSE i \in 1..Len(entries) : entries[i].key = key
    ELSE 0

\* a registry that puts a new node in front of the others
MutProcessPrepends(entries, slotCounter, log, buffer, header, t) ==
    LET serverKey == header.node_public_key
        got == getNextSlot(slotCounter)
        isNew == ~Has(entries, serverKey)
        registered == IF isNew /\ ~got.isNull
                      THEN <<[key |-> serverKey, card |-> NewServerCard(got.slot)]>> \o entries
                      ELSE entries
        counter == IF isNew THEN got.nextSlot ELSE slotCounter
        i == IndexOf(registered, serverKey)
    IN IF i = 0
       THEN [servers |-> registered, nextSlot |-> counter, alerts |-> log]
       ELSE LET done == update(registered[i].card, header, parseLedgerRanges(buffer, header),
                               parseObjectCounts(buffer, header),
                               parseDebugCounters(buffer), log, t)
            IN [servers |-> [registered EXCEPT ![i].card = done.card],
                nextSlot |-> counter,
                alerts |-> done.log]

\* what the try block of server.on('message') does once the header is parsed:
\* the registry, the slot counter and the log it leaves
Process(entries, slotCounter, log, buffer, header, t) ==
    LET serverKey == header.node_public_key
        ranges == parseLedgerRanges(buffer, header)
        debugCounters == parseDebugCounters(buffer)
        objectCounts == parseObjectCounts(buffer, header)
        got == getNextSlot(slotCounter)
        isNew == ~Has(entries, serverKey)
        registered == IF isNew /\ ~got.isNull
                      THEN Append(entries, [key |-> serverKey, card |-> NewServerCard(got.slot)])
                      ELSE entries
        counter == IF isNew THEN got.nextSlot ELSE slotCounter
        i == IndexOf(registered, serverKey)
    IN IF i = 0
       THEN [servers |-> registered, nextSlot |-> counter, alerts |-> log]
       ELSE LET done == update(registered[i].card, header, ranges, objectCounts,
                               debugCounters, log, t)
            IN [servers |-> [registered EXCEPT ![i].card = done.card],
                nextSlot |-> counter,
                alerts |-> done.log]

\* what the handler found, kept for the properties: whether the parse threw,
\* and the sender's card as it was when the packet arrived
Found(entries, buffer) ==
    LET parsed == parseServerInfoHeader(buffer)
        i == IF parsed.threw THEN 0 ELSE IndexOf(entries, parsed.value.node_public_key)
    IN [type |-> "message",
        buffer |-> buffer,
        threw |-> parsed.threw,
        tracked |-> i # 0,
        wasAwol |-> IF i # 0 THEN entries[i].card.isAwol ELSE FALSE,
        hadWarnings |-> IF i # 0 /\ entries[i].card.header # <<>>
                        THEN getWarnings(entries[i].card.header[1]) ELSE <<>>,
        announced |-> IF i # 0 THEN Announced(entries[i].card, parsed.value) ELSE <<>>]

\* catch (err) { console.debug(...) } around the body of the handler: the
\* exception stops there (an exception that leaves a listener ends the process)
SurvivesHandler(threw) == TRUE

\* server.on('message'), a datagram arriving dt ms after the last event
OnMessage(dt, buffer) ==
    LET parsed == parseServerInfoHeader(buffer)
    IN /\ running
       /\ listening
       /\ now' = now + dt
       /\ event' = Found(servers, buffer)
       /\ running' = SurvivesHandler(parsed.threw)
       /\ UNCHANGED listening
       /\ IF parsed.threw
          THEN /\ console' = [text |-> "Error processing packet"]
               /\ UNCHANGED <<servers, nextSlot, alerts, reported>>
          ELSE LET done == Process(servers, nextSlot, alerts, buffer, parsed.value, now + dt)
                   key == parsed.value.node_public_key
               IN /\ servers' = done.servers
                  /\ nextSlot' = done.nextSlot
                  /\ alerts' = done.alerts
                  /\ reported' = IF Has(done.servers, key)
                                 THEN reported \cup {<<key, getWarnings(parsed.value),
                                                        /\ buffer.magic = SERVER_INFO_MAGIC
                                                        /\ buffer.version = SERVER_INFO_VERSION>>}
                                 ELSE reported
                  /\ UNCHANGED console

\* a timer that looks at the first card only
MutUpdateFirstOnly(entries, i, log, t) ==
    IF entries = <<>> THEN [servers |-> entries, alerts |-> log]
    ELSE LET done == updateDisplay(entries[1].card, log, t)
         IN [servers |-> [entries EXCEPT ![1].card = done.card], alerts |-> done.log]

\* a timer that takes every card it looks at as just heard from
RECURSIVE MutUpdateAllTouches(_, _, _, _)
MutUpdateAllTouches(entries, i, log, t) ==
    IF i > Len(entries) THEN [servers |-> entries, alerts |-> log]
    ELSE LET done == updateDisplay([entries[i].card EXCEPT !.lastUpdate = t], log, t)
         IN MutUpdateAllTouches([entries EXCEPT ![i].card = done.card], i + 1, done.log, t)

\* the body of the interval timer: updateDisplay() of every card, in the order
\* of servers.values()
RECURSIVE UpdateAll(_, _, _, _)
UpdateAll(entries, i, log, t) ==
    IF i > Len(entries) THEN [servers |-> entries, alerts |-> log]
    ELSE LET done == updateDisplay(entries[i].card, log, t)
         IN UpdateAll([entries EXCEPT ![i].card = done.card], i + 1, done.log, t)

\* the interval timer firing dt ms after the last event
OnTick(dt) ==
    LET done == UpdateAll(servers, 1, alerts, now + dt)
    IN /\ running
       /\ now' = now + dt
       /\ event' = [type |-> "tick"]
       /\ servers' = done.servers
       /\ alerts' = done.alerts
       /\ UNCHANGED <<nextSlot, console, running, listening, reported>>

\* server.on('error'): the error is printed and the socket is closed.  A closed
\* socket emits no further 'message' or 'error' event; the interval timer is
\* not cleared and keeps firing.
OnSocketError ==
    /\ running
    /\ listening
    /\ event' = [type |-> "error"]
    /\ console' = [text |-> "Server error"]
    /\ listening' = FALSE
    /\ UNCHANGED <<now, servers, nextSlot, alerts, running, reported>>

\* the details box renders a duration of the header (initial_sync_us, the
\* state durations) with formatDuration
OnShowDuration(microseconds) ==
    /\ running
    /\ event' = [type |-> "duration", microseconds |-> microseconds]
    /\ console' = [text |-> formatDuration(microseconds)]
    /\ UNCHANGED <<now, servers, nextSlot, alerts, running, listening, reported>>

\* handleRawPacket (--raw): the three parsers, their results printed
OnRawPacket(buffer) ==
    LET parsed == parseServerInfoHeader(buffer)
    IN /\ running
       /\ listening
       /\ event' = [type |-> "raw", buffer |-> buffer]
       /\ console' = IF parsed.threw
                     THEN [text |-> "Error parsing packet"]
                     ELSE [text |-> "Parsed Header",
                           header |-> parsed.value,
                           ranges |-> parseLedgerRanges(buffer, parsed.value),
                           objectCounts |-> parseObjectCounts(buffer, parsed.value)]
       /\ UNCHANGED <<now, servers, nextSlot, alerts, running, listening, reported>>

-----------------------------------------------------------------------------
(* The network: the datagrams that arrive and the times between events *)

NumNodes == 2       \* node identities on the network of Spec
MaxEvents == 4      \* events of one run of Spec
StartTime == 1000   \* Date.now() when the dashboard starts
MaxExtra == 2       \* events of one run of SpecCapacity that register no node
MaxPairs == 3       \* ledger range pairs a raw datagram carries
MaxCount == 3       \* the largest ledger_range_count of a raw datagram
MaxRecords == 2     \* object-count records a raw datagram carries
MaxFlags == 31      \* the largest warning bitmask of SpecWarnings
MaxSenders == 2     \* nodes that send in one run of SpecWarnings
MaxSendTime == 2000 \* in SpecTimer datagrams arrive during this time after the start
MaxSilence == 5000  \* in SpecTimer the timer is followed this long after the last datagram
MaxYears == 2       \* the longest duration that is formatted, in years

Datagram(key, flags) ==
    [len |-> HEADER_SIZE,
     magic |-> SERVER_INFO_MAGIC,
     version |-> SERVER_INFO_VERSION,
     ledger_range_count |-> 0,
     warning_flags |-> flags,
     node_public_key |-> key,
     tail |-> <<>>]

\* the first len bytes of a datagram
Truncated(d, len) ==
    [d EXCEPT !.len = len,
              !.tail = IF len <= HEADER_SIZE THEN <<>>
                       ELSE SubSeq(d.tail, 1, len - HEADER_SIZE)]

Nodes == 1..NumNodes

FlagChoices == {0, 8, 9}

\* the gaps between two firings of the timer, or a datagram and the next
\* firing: the timeout, half a second more, the alert window
Steps == {SERVER_TIMEOUT, SERVER_TIMEOUT + 500, ALERT_WINDOW}

\* a datagram arrives half a second after the event before it
ArrivalSteps == {500}

WellFormed == {Datagram(k, f) : k \in Nodes, f \in FlagChoices}

\* one byte short of the header, a wrong magic, a wrong version
Malformed ==
    {Truncated(Datagram(1, 9), HEADER_READ_END - 1),
     [Datagram(NumNodes, 9) EXCEPT !.magic = 0],
     [Datagram(1, 8) EXCEPT !.version = SERVER_INFO_VERSION + 1]}

Packets == WellFormed \cup Malformed

\* little-endian bytes of a 32 bit value
U32LE(v) == <<v % 256, (v \div 256) % 256, (v \div 65536) % 256, v \div 16777216>>

\* the i-th ledger range a raw datagram carries, and the bytes of the first m
PairAt(i) == [start |-> 1000 * i + 1, end |-> 1000 * i + 900]

RECURSIVE PairBytes(_)
PairBytes(m) ==
    IF m = 0 THEN <<>>
    ELSE PairBytes(m - 1) \o U32LE(PairAt(m).start) \o U32LE(PairAt(m).end)

\* a datagram that declares count ranges and carries m
RawDatagram(count, m, flags) ==
    [Datagram(1, flags) EXCEPT !.len = HEADER_SIZE + RANGE_SIZE * m,
                               !.ledger_range_count = count,
                               !.tail = PairBytes(m)]

\* whole datagrams, and datagrams that lost their last 1, 4 or 7 bytes or all
\* but their first 100
RawBuffers ==
    {Truncated(RawDatagram(count, m, flags), HEADER_SIZE + RANGE_SIZE * m - cut) :
        count \in 0..MaxCount, m \in 0..MaxPairs, flags \in {0, 15}, cut \in {0, 1, 4, 7}}
    \cup {Truncated(RawDatagram(count, 0, 0), len) :
            count \in 0..MaxCount, len \in {100, HEADER_READ_END - 1, HEADER_READ_END}}

\* n bytes of value b
Fill(n, b) == [k \in 1..n |-> b]

\* the names of the object-count records: "ab", "a\0b", a name of 56
\* characters, 0xFF (not UTF-8), and the empty name
ObjectNames == {<<97, 98>>, <<97, 0, 98>>, Fill(NAME_SIZE, 120), <<255>>, <<>>}

\* a record of the object-count table: the name padded with NULs to 56 bytes,
\* then the count as a 64 bit little-endian value
ObjectRecord(name, count) ==
    name \o Fill(NAME_SIZE - Len(name), 0) \o U32LE(count) \o U32LE(0)

\* the tables of n records, the i-th with count 10 + i
RECURSIVE ObjectTables(_)
ObjectTables(n) ==
    IF n = 0 THEN {<<>>}
    ELSE {table \o ObjectRecord(name, 10 + n) : table \in ObjectTables(n - 1), name \in ObjectNames}

\* a datagram that carries m ledger ranges, then an object-count table, then
\* extra bytes that do not make a record
ObjectDatagram(m, table, extra) ==
    [Datagram(1, 0) EXCEPT !.len = HEADER_SIZE + RANGE_SIZE * m + Len(table) + extra,
                           !.ledger_range_count = m,
                           !.tail = PairBytes(m) \o table \o Fill(extra, 97)]

\* datagrams with an object-count table, after no ledger range or after one
ObjectBuffers ==
    {ObjectDatagram(m, table, extra) :
        m \in {0, 1}, table \in UNION {ObjectTables(n) : n \in 0..MaxRecords},
        extra \in {0, RECORD_SIZE - 1}}

Init ==
    /\ now = StartTime
    /\ servers = <<>>
    /\ nextSlot = 0
    /\ alerts = <<>>
    /\ console = [text |-> ""]
    /\ running = TRUE
    /\ listening = TRUE
    /\ event = [type |-> "start"]
    /\ reported = {}
    /\ handled = 0

\* a datagram arrives
Message ==
    /\ handled < MaxEvents
    /\ handled' = handled + 1
    /\ \E dt \in ArrivalSteps, buffer \in Packets : OnMessage(dt, buffer)

\* the interval timer fires
Tick ==
    /\ handled < MaxEvents
    /\ handled' = handled + 1
    /\ \E dt \in Steps : OnTick(dt)

Next == Message \/ Tick

Spec == Init /\ [][Next]_vars

\* The registry at its capacity.  Identities are numbered in the order of their
\* first datagram; every node reports all four warnings; node 1 also sends
\* again, with the warnings or without; the timer fires once the nodes have
\* been silent for longer than the timeout.  Datagrams arrive within the same
\* millisecond.  Of the events that register no node there are at most MaxExtra.
Extra == handled - Len(servers)

FirstDatagram ==
    /\ Len(servers) < MAX_SLOTS \/ Extra < MaxExtra
    /\ handled' = handled + 1
    /\ OnMessage(0, Datagram(Len(servers) + 1, 15))

NextDatagram ==
    /\ Len(servers) >= 1
    /\ Extra < MaxExtra
    /\ handled' = handled + 1
    /\ \E flags \in {0, 15} : OnMessage(0, Datagram(1, flags))

LateTick ==
    /\ Extra < MaxExtra
    /\ handled' = handled + 1
    /\ OnTick(SERVER_TIMEOUT + 500)

NextCapacity == FirstDatagram \/ NextDatagram \/ LateTick

SpecCapacity == Init /\ [][NextCapacity]_vars

\* The raw mode (--raw): every datagram is parsed and printed.
RawPacket ==
    /\ \E buffer \in RawBuffers \cup ObjectBuffers : OnRawPacket(buffer)
    /\ UNCHANGED handled

NextRaw == RawPacket

SpecRaw == Init /\ [][NextRaw]_vars

\* The warning bitmask: one node after the other sends its first datagram,
\* with any bitmask up to MaxFlags.
WarningsDatagram ==
    /\ handled < MaxSenders
    /\ handled' = handled + 1
    /\ \E dt \in ArrivalSteps, flags \in 0..MaxFlags :
          OnMessage(dt, Datagram(handled + 1, flags))

NextWarnings == WarningsDatagram

SpecWarnings == Init /\ [][NextWarnings]_vars

\* The periodic timer.  It fires every TICK_INTERVAL ms from the start of the
\* dashboard on, for as long as the process lives; datagrams arrive between
\* its firings or not at all.  The model follows the timer until every node has
\* been silent for MaxSilence, and lets datagrams (of nodes that are not
\* synced) arrive during MaxSendTime.
LastHeard ==
    IF servers = <<>> THEN StartTime
    ELSE LET i == CHOOSE i \in 1..Len(servers) :
                     \A j \in 1..Len(servers) :
                         servers[j].card.lastUpdate <= servers[i].card.lastUpdate
         IN servers[i].card.lastUpdate

TimerMessage ==
    /\ handled' = handled + 1
    /\ \E dt \in ArrivalSteps, key \in Nodes :
          /\ now + dt <= StartTime + MaxSendTime
          /\ OnMessage(dt, Datagram(key, WARNING_FLAGS.NOT_SYNCED))

\* the next firing of the timer after now
TimerTick ==
    /\ now < LastHeard + MaxSilence
    /\ handled' = handled + 1
    /\ OnTick(TICK_INTERVAL - ((now - StartTime) % TICK_INTERVAL))

NextTimer == TimerMessage \/ TimerTick

\* setInterval fires again and again: the tick is taken whenever it is due
SpecTimer == Init /\ [][NextTimer]_vars /\ WF_vars(TimerTick)

\* The durations that are formatted: around the divisor of every unit, one and
\* a half times some, whole years, each with a few microseconds more.
DurationSeconds ==
    {0, 1, 2, 59, 60, 90, 3599, 3600, 5400, 86399, 86400, 2591999, 2592000, 31535999}
    \cup {31536000 * years : years \in 1..MaxYears}

DurationMicros == {0, 1, 999, 1000, 1500, 40000, 999999}

Durations == [seconds : DurationSeconds, micros : DurationMicros]

ShowDuration ==
    /\ \E microseconds \in Durations : OnShowDuration(microseconds)
    /\ UNCHANGED handled

NextDuration == ShowDuration

SpecDuration == Init /\ [][NextDuration]_vars

\* The socket and its errors: node 1 sends, half a second after the event
\* before or one timer period before the alert window has passed; the timer
\* fires; the socket may report an error.
LateArrival == ALERT_WINDOW - TICK_INTERVAL

SocketMessage ==
    /\ handled < MaxEvents
    /\ handled' = handled + 1
    /\ \E dt \in ArrivalSteps \cup {LateArrival}, flags \in FlagChoices :
          OnMessage(dt, Datagram(1, flags))

SocketTick ==
    /\ handled < MaxEvents
    /\ handled' = handled + 1
    /\ \E dt \in Steps : OnTick(dt)

SocketError ==
    /\ handled < MaxEvents
    /\ handled' = handled + 1
    /\ OnSocketError

NextSocket == SocketMessage \/ SocketTick \/ SocketError

SpecSocket == Init /\ [][NextSocket]_vars

-----------------------------------------------------------------------------
(* Properties *)

\* the card of a tracked node, and what makes a datagram one the protocol
\* recognizes
CardOf(key) == servers[IndexOf(servers, key)].card

Recognized(buffer) ==
    /\ buffer.len >= HEADER_READ_END
    /\ buffer.magic = SERVER_INFO_MAGIC
    /\ buffer.version = SERVER_INFO_VERSION

AwolAlert(a) == a.msg = "Server is AWOL"

\* C1: the registry tracks at most 20 identities, the first 20 that appeared;
\* once 20 slots are assigned a datagram from an unseen identity registers
\* nothing, evicts nothing, appends no alert and raises no error.
C1_RegistryCapacity ==
    /\ [](/\ Len(servers) <= MAX_SLOTS
          /\ \A i \in 1..Len(servers) : servers[i].key <= MAX_SLOTS)
    /\ [][(/\ nextSlot = MAX_SLOTS
           /\ event'.type = "message"
           /\ \A i \in 1..Len(servers) : servers[i].key # event'.buffer.node_public_key)
          => (UNCHANGED <<servers, nextSlot, alerts>> /\ running')]_vars

\* the 21st identity has sent, with all four warnings, while 20 nodes are
\* tracked and one of them is AWOL
C1_Witness ==
    /\ event.type = "message"
    /\ event.buffer.node_public_key = MAX_SLOTS + 1
    /\ event.buffer.warning_flags = 15
    /\ Len(servers) = MAX_SLOTS
    /\ \E i \in 1..Len(servers) : servers[i].card.isAwol

\* C2: after a tick every tracked node is AWOL exactly when it was last seen
\* more than 2000 ms ago, whatever its warning bitmask.
C2_AwolIffSilentTooLong ==
    event.type = "tick" =>
        \A i \in 1..Len(servers) :
            LET card == servers[i].card
            IN /\ card.isAwol <=> (now - card.lastUpdate > 2000)
               /\ (card.syncStatus = "AWOL") <=> (now - card.lastUpdate > 2000)

\* a tick that finds one node silent for 2500 ms, AWOL though its bitmask is 0,
\* and another silent for exactly 2000 ms, not AWOL
C2_Witness ==
    /\ event.type = "tick"
    /\ \E i \in 1..Len(servers) :
          /\ now - servers[i].card.lastUpdate = 2500
          /\ servers[i].card.header[1].warning_flags = 0
          /\ servers[i].card.isAwol
    /\ \E i \in 1..Len(servers) :
          /\ now - servers[i].card.lastUpdate = 2000
          /\ ~servers[i].card.isAwol

\* C3: when a recognized datagram arrives from a node that is AWOL, the handler
\* leaves the node not AWOL, NOT SYNCED if bit 3 of the datagram's bitmask is
\* set and SYNCED otherwise, and last seen at the arrival time.
C3_AwolNotSticky ==
    (event.type = "message" /\ Recognized(event.buffer) /\ event.wasAwol) =>
        LET card == CardOf(event.buffer.node_public_key)
        IN /\ ~card.isAwol
           /\ card.syncStatus =
                 IF (event.buffer.warning_flags \div 8) % 2 = 1
                 THEN "NOT SYNCED" ELSE "SYNCED"
           /\ card.lastUpdate = now

\* an AWOL node has sent a datagram with bit 3 set
C3_Witness ==
    /\ event.type = "message"
    /\ Recognized(event.buffer)
    /\ event.wasAwol
    /\ event.buffer.warning_flags = 8

\* C4: any two AWOL alerts of the same node in the log are more than 300000 ms
\* apart.
C4_AwolAlertThrottled ==
    \A i, j \in 1..Len(alerts) :
        (i < j /\ AwolAlert(alerts[i]) /\ AwolAlert(alerts[j]) /\ alerts[i].id = alerts[j].id)
        => alerts[i].at - alerts[j].at > 300000

\* the log holds two AWOL alerts of one node
C4_Witness ==
    \E i, j \in 1..Len(alerts) :
        i < j /\ AwolAlert(alerts[i]) /\ AwolAlert(alerts[j]) /\ alerts[i].id = alerts[j].id

\* the warning sets a node has reported, and whether all its datagrams were
\* recognized ones
ReportsOf(id) == {r \in reported : encodeNodePublic(r[1]) = id}

\* C5: for a node whose warning set has been the same in every datagram (all
\* of them recognized), any two alerts of the same warning kind are more than
\* 300000 ms apart.
C5_PersistentWarningsThrottled ==
    \A i, j \in 1..Len(alerts) :
        (/\ i < j
         /\ ~AwolAlert(alerts[i])
         /\ alerts[i].msg = alerts[j].msg
         /\ alerts[i].id = alerts[j].id
         /\ Cardinality(ReportsOf(alerts[i].id)) = 1
         /\ \A r \in ReportsOf(alerts[i].id) : r[3])
        => alerts[i].at - alerts[j].at > 300000

\* the warnings of ws that are not in had, in the order of ws
NewlyAppeared(had, ws) ==
    SelectSeq(ws, LAMBDA w : \A k \in 1..Len(had) : had[k] # w)

Range(seq) == {seq[k] : k \in 1..Len(seq)}

\* C6: for a datagram of a tracked node, update() announces the newly appeared
\* warnings, one alert each, if the new warning set is a strict superset of the
\* previous one, and nothing otherwise.
C6_NewWarningsOnly ==
    (event.type = "message" /\ Recognized(event.buffer) /\ event.tracked) =>
        LET had == event.hadWarnings
            current == getWarnings(event.buffer)
        IN event.announced =
              IF Range(had) \subseteq Range(current) /\ Range(had) # Range(current)
              THEN NewlyAppeared(had, current)
              ELSE <<>>

\* C7: decoding never raises: a datagram of any length is parsed and printed,
\* with no ledger ranges and no object counts when it is shorter than the header.
C7_DecodeNeverRaises ==
    event.type = "raw" =>
        /\ console.text = "Parsed Header"
        /\ event.buffer.len < HEADER_SIZE =>
              (console.ranges = <<>> /\ console.objectCounts = <<>>)

\* C8: a datagram whose magic or version is not the recognized one changes
\* neither the registry nor any card nor the log.
C8_UnrecognizedRejected ==
    [][(/\ event'.type = "message"
        /\ \/ event'.buffer.magic # SERVER_INFO_MAGIC
           \/ event'.buffer.version # SERVER_INFO_VERSION)
       => UNCHANGED <<servers, nextSlot, alerts>>]_vars

\* C9: a datagram whose decode fails (it ends before the header does) leaves the
\* registry, the slot counter, the log and every card as they were, and the
\* process alive and ready for the next event.
C9_MalformedIsolated ==
    /\ [][(event'.type = "message" /\ event'.buffer.len < HEADER_READ_END)
          => (UNCHANGED <<servers, nextSlot, alerts>> /\ running')]_vars
    /\ []((event.type = "message" /\ handled < MaxEvents) => ENABLED Next)

\* a truncated datagram of a tracked node was handled
C9_Witness ==
    /\ event.type = "message"
    /\ event.buffer.len < HEADER_READ_END
    /\ \E i \in 1..Len(servers) : servers[i].key = event.buffer.node_public_key
    /\ Len(alerts) > 0
    /\ running

\* C10: with ledger_range_count n, the ranges are the n pairs after the header,
\* in their order, when the datagram holds them all, and none when the count
\* reaches past its end.
C10_LedgerRanges ==
    (event.type = "raw" /\ console.text = "Parsed Header") =>
        LET n == event.buffer.ledger_range_count
        IN IF HEADER_SIZE + 8 * n <= event.buffer.len
           THEN /\ Len(console.ranges) = n
                /\ \A i \in 1..n : console.ranges[i] = PairAt(i)
           ELSE console.ranges = <<>>

\* a datagram that declares three ranges and holds them
C10_Witness ==
    /\ event.type = "raw"
    /\ event.buffer.ledger_range_count = 3
    /\ event.buffer.len = HEADER_SIZE + 24
    /\ console.text = "Parsed Header"
    /\ Len(console.ranges) = 3

\* the 56 name bytes of the i-th record of a table that starts at offset start
NameBytes(buffer, start, i) ==
    [k \in 1..NAME_SIZE |-> buffer.tail[start - HEADER_SIZE + 64 * (i - 1) + k]]

\* the bytes of a name up to its last byte that is not NUL
Unpadded(bytes) ==
    LET used == {k \in 1..Len(bytes) : bytes[k] # 0}
    IN IF used = {} THEN <<>>
       ELSE SubSeq(bytes, 1, CHOOSE k \in used : \A j \in used : j <= k)

\* the names of records i..n that are not all zero, in buffer order
RECURSIVE NamesFrom(_, _, _, _)
NamesFrom(buffer, start, i, n) ==
    IF i > n THEN <<>>
    ELSE LET name == Unpadded(NameBytes(buffer, start, i))
         IN (IF name = <<>> THEN <<>> ELSE <<name>>) \o NamesFrom(buffer, start, i + 1, n)

\* C11: the object-count table starts after the declared ledger ranges and
\* holds floor(remaining bytes / 64) records; the result lists, in buffer order,
\* the records whose name is not all zero, each (for a name of valid UTF-8) with
\* its name stripped of the trailing NULs; it is empty when the table starts at
\* or past the end of the buffer.
C11_ObjectCounts ==
    (event.type = "raw" /\ console.text = "Parsed Header") =>
        LET buffer == event.buffer
            start == HEADER_SIZE + 8 * buffer.ledger_range_count
            n == IF start >= buffer.len THEN 0 ELSE (buffer.len - start) \div 64
            names == NamesFrom(buffer, start, 1, n)
        IN /\ Len(console.objectCounts) = Len(names)
           /\ \A j \in 1..Len(names) :
                 (\A k \in 1..Len(names[j]) : names[j][k] < 128)
                 => console.objectCounts[j].name = names[j]

\* a table of two records after one ledger range, the first record with an
\* all-zero name and the second named "ab", followed by 63 bytes
C11_Witness ==
    /\ event.type = "raw"
    /\ console.text = "Parsed Header"
    /\ event.buffer.ledger_range_count = 1
    /\ event.buffer.len = HEADER_SIZE + 8 + 2 * 64 + 63
    /\ NameBytes(event.buffer, HEADER_SIZE + 8, 1) = Fill(NAME_SIZE, 0)
    /\ console.objectCounts = <<[name |-> <<97, 98>>, count |-> [high |-> 0, low |-> 12]]>>

\* C12: the log never holds more than 100 entries and is ordered newest first;
\* an event puts its k new entries in front of the old ones, and of the old
\* ones it keeps, in their order, all but the last ones that make the log
\* longer than 100.
C12_AlertLogBounded ==
    /\ [](/\ Len(alerts) <= 100
          /\ \A i \in 1..(Len(alerts) - 1) : alerts[i].at >= alerts[i + 1].at)
    /\ [][\E k \in {n \in (Len(alerts') - Len(alerts))..Len(alerts') : n >= 0} :
            /\ Len(alerts') = IF Len(alerts) + k > 100 THEN 100 ELSE Len(alerts) + k
            /\ \A i \in 1..k : alerts'[i].at = now'
            /\ \A i \in (k + 1)..Len(alerts') : alerts'[i] = alerts[i - k]]_vars

\* the log is full, a datagram has just added alerts to it, and the oldest
\* entries, those of the node that registered first, are gone
C12_Witness ==
    /\ event.type = "message"
    /\ event.announced # <<>>
    /\ Len(alerts) = MAX_ALERTS
    /\ alerts[1].id = encodeNodePublic(1)
    /\ alerts[MAX_ALERTS].id = encodeNodePublic(2)

\* C13: after a socket 'error' event the monitor still receives: the next
\* datagram that arrives is handled.
C13_SocketErrorSurvived ==
    (event.type = "error" /\ handled < MaxEvents) => (listening /\ ENABLED SocketMessage)

\* the warnings of a bitmask as the protocol lists them: bit 0, 1, 2, 3
WarningNames == <<"Amendment Blocked", "UNL Blocked", "Amendment Warned", "NOT SYNCED">>

RECURSIVE Power2(_)
Power2(n) == IF n = 0 THEN 1 ELSE 2 * Power2(n - 1)

RECURSIVE WarningsFromBit(_, _)
WarningsFromBit(flags, bit) ==
    IF bit > 3 THEN <<>>
    ELSE (IF ((flags % 16) \div Power2(bit)) % 2 = 1 THEN <<WarningNames[bit + 1]>> ELSE <<>>)
         \o WarningsFromBit(flags, bit + 1)

\* the messages a handler appended at time t, in the order of their appending
RECURSIVE AppendedAt(_, _)
AppendedAt(log, t) ==
    IF log = <<>> \/ Head(log).at # t THEN <<>>
    ELSE Append(AppendedAt(Tail(log), t), Head(log).msg)

\* C14: the warnings of a node's first datagram, which the handler announces
\* one by one, are those of bits 0 to 3 of its bitmask, in the order Amendment
\* Blocked, UNL Blocked, Amendment Warned, NOT SYNCED, whatever the higher bits:
\* NOT SYNCED alone for 8, all four for 15.
C14_WarningBitmask ==
    (event.type = "message" /\ ~event.threw /\ ~event.tracked) =>
        LET flags == event.buffer.warning_flags
            announced == AppendedAt(alerts, now)
        IN /\ announced = WarningsFromBit(flags, 0)
           /\ flags = 8 => announced = <<"NOT SYNCED">>
           /\ flags = 15 => announced = WarningNames

\* a first datagram with bitmask 15 and one with bitmask 24 were handled
C14_Witness ==
    /\ event.type = "message"
    /\ ~event.tracked
    /\ event.buffer.warning_flags = 24
    /\ Len(alerts) = 5
    /\ alerts[1].msg = "NOT SYNCED"
    /\ alerts[2].msg = "NOT SYNCED"
    /\ alerts[5].msg = "Amendment Blocked"

Tracked(key) == Has(servers, key)

\* the last event was a datagram of this node
JustSent(key) ==
    event.type = "message" /\ ~event.threw /\ event.buffer.node_public_key = key

\* C15: with the timer firing again and again, a tracked node becomes AWOL
\* unless a datagram of it arrives, whether datagrams of other nodes arrive or
\* not; and an AWOL node is still AWOL after every later tick.
C15_SilenceDetected ==
    /\ \A key \in Nodes :
          Tracked(key) ~> ((Tracked(key) /\ CardOf(key).isAwol) \/ JustSent(key))
    /\ [][\A key \in Nodes :
            (Tracked(key) /\ CardOf(key).isAwol /\ event'.type = "tick")
            => CardOf(key)'.isAwol]_vars

\* two nodes are AWOL after a tick, one of them silent for 4500 ms, and no
\* datagram has arrived since the other one's last
C15_Witness ==
    /\ event.type = "tick"
    /\ Len(servers) = 2
    /\ \A i \in 1..Len(servers) : servers[i].card.isAwol
    /\ \E i \in 1..Len(servers) : now - servers[i].card.lastUpdate = 4500
    /\ \E i \in 1..Len(servers) : now - servers[i].card.lastUpdate = 3000

\* C16: the nodes hold the slots 0, 1, 2, ... in the order of their first
\* datagram and the registry lists them in that order; a step removes no node,
\* changes no node's slot or place, and adds at most the sender of the datagram
\* it handled, at the end and with the next slot.
C16_SlotsStable ==
    /\ [](/\ \A i \in 1..Len(servers) : servers[i].card.index = i - 1
          /\ \A i, j \in 1..Len(servers) : i # j => servers[i].key # servers[j].key)
    /\ [][/\ Len(servers') >= Len(servers)
          /\ Len(servers') <= Len(servers) + 1
          /\ \A i \in 1..Len(servers) :
                /\ servers'[i].key = servers[i].key
                /\ servers'[i].card.index = servers[i].card.index
          /\ Len(servers') = Len(servers) + 1 =>
                /\ event'.type = "message"
                /\ servers'[Len(servers')].key = event'.buffer.node_public_key
                /\ servers'[Len(servers')].card.index = Len(servers)]_vars

\* node 2 was first and holds slot 0, node 1 holds slot 1, and a tick has
\* found node 2 AWOL since
C16_Witness ==
    /\ Len(servers) = 2
    /\ servers[1].key = 2
    /\ servers[1].card.index = 0
    /\ servers[2].key = 1
    /\ servers[2].card.index = 1
    /\ event.type = "tick"
    /\ servers[1].card.isAwol

\* the largest unit whose divisor does not exceed the value
LargestUnit(microseconds) ==
    units[CHOOSE i \in 1..Len(units) :
            /\ AtLeast(microseconds, units[i])
            /\ \A j \in 1..(i - 1) : ~AtLeast(microseconds, units[j])]

\* C17: a duration that is not zero is rendered as its quotient by the largest
\* unit whose divisor does not exceed it, with one decimal place, then the
\* unit, then an s unless the rendered value is exactly 1: 1000000 microseconds
\* is "1.0 second".
C17_DurationFormat ==
    (event.type = "duration" /\ event.microseconds # [seconds |-> 0, micros |-> 0]) =>
        LET unit == LargestUnit(event.microseconds)
            tenths == Tenths(event.microseconds, unit)
        IN console.text =
              toFixed1(tenths) \o " " \o unit.unit \o (IF tenths = 10 THEN "" ELSE "s")

\* what a card holds of its node: the slot, the snapshot and the time of the
\* last datagram
Snapshot(card) ==
    <<card.index, card.header, card.ranges, card.objectCounts, card.debugCounters,
      card.lastUpdate>>

\* C18: a tick leaves the slot counter, the nodes of the registry and their
\* order, and every node's slot, snapshot and time of the last datagram as
\* they were.  (It may change the AWOL flag and the status shown, the times of
\* the last AWOL alert and the last warning alert, and the log.)
C18_TickFrame ==
    [][event'.type = "tick" =>
          /\ nextSlot' = nextSlot
          /\ Len(servers') = Len(servers)
          /\ \A i \in 1..Len(servers) :
                /\ servers'[i].key = servers[i].key
                /\ Snapshot(servers'[i].card) = Snapshot(servers[i].card)]_vars

\* a tick has found the node with two warnings, not AWOL and the window of
\* its last warning alert over, and has announced the warnings again
C18_Witness ==
    /\ event.type = "tick"
    /\ Len(servers) = 1
    /\ ~servers[1].card.isAwol
    /\ servers[1].card.lastWarningTime = now
    /\ servers[1].card.lastUpdate = now - SERVER_TIMEOUT
    /\ Len(alerts) >= 4
    /\ alerts[1].at = now
    /\ alerts[2].at = now

\* C19: handling one datagram appends at most one alert of each warning kind:
\* no two of the alerts the handler appended carry the same message.
C19_OneAlertPerKind ==
    (event.type = "message" /\ Recognized(event.buffer)) =>
        LET appended == AppendedAt(alerts, now)
        IN \A i, j \in 1..Len(appended) : i # j => appended[i] # appended[j]

\* C20: a tick that finds a node AWOL appends no alert for it but "Server is
\* AWOL" and leaves the time of its last warning alert as it was, whatever the
\* warnings of its last datagram.
C20_NoWarningsWhileAwol ==
    [][event'.type = "tick" =>
          \A i \in 1..Len(servers) :
              servers'[i].card.isAwol =>
                  /\ servers'[i].card.lastWarningTime = servers[i].card.lastWarningTime
                  /\ \A a \in 1..(Len(alerts') - Len(alerts)) :
                        alerts'[a].id = getNodeId(servers[i].card) => AwolAlert(alerts'[a])]_vars

\* a tick has found the node AWOL and has said so, while the node's last
\* datagram had two warnings and its last warning alert is older than the window
C20_Witness ==
    /\ event.type = "tick"
    /\ Len(servers) = 1
    /\ servers[1].card.isAwol
    /\ servers[1].card.header[1].warning_flags = 9
    /\ now - servers[1].card.lastWarningTime > ALERT_WINDOW
    /\ servers[1].card.lastAwolAlert = now
    /\ AwolAlert(alerts[1])
    /\ alerts[1].at = now

=============================================================================
